---- MODULE Spec2Model ----
(***************************************************************************)
(* A model of the retrieval-augmented-generation pipeline of the mobile    *)
(* store chatbot: the word-window chunker and the two ingestion paths      *)
(* (embedding/pdf_processor.py, embed_doc.py), the vector store            *)
(* (cosmos_vector_db.py), and the two query orchestrators                  *)
(* (agents/autogen_module.py, autogen_module.py).                          *)
(*                                                                         *)
(* Python strings that are inspected character by character (document      *)
(* text, chunks) are sequences of one-character strings.  Strings that are *)
(* only concatenated and compared (prompts, answers, error messages) are   *)
(* sequences of pieces.  None is the record NoneVal.                       *)
(***************************************************************************)
EXTENDS Integers, Sequences, FiniteSets, TLC

VARIABLES
    chText,      \* _chunk_text: the text argument
    chSize,      \* _chunk_text: the chunk_size argument
    chOverlap,   \* _chunk_text: the overlap argument
    chOut,       \* _chunk_text: not yet called, or how the call ended
    tier,        \* backend: the index kinds the cluster tier supports
    indexes,     \* backend: the indexes of the collection
    collection,  \* backend: the documents of the collection, in insertion order
    store,       \* the CosmosVectorDB object (its fields), once constructed
    initLog,     \* the latest CosmosVectorDB.__init__: what it saw and issued
    insertLog,   \* the latest insert_documents call: its batch and its result
    searchLog,   \* the search call just made, when it is the latest store call
    qPath,       \* get_response: which module's function serves the query
    qPc,         \* get_response: the call it is about to make, or "done"
    qLocals,     \* get_response: its local variables
    qCalls,      \* get_response: the capability invocations made so far
    qResult,     \* get_response: pending, or what the caller got
    ingest,      \* the ingestion of one PDF: its path, position and locals
    ui           \* the Streamlit page: its variant, its position, its notice

chunkerVars == <<chText, chSize, chOverlap, chOut>>
backendVars == <<tier, indexes, collection>>
storeVars == <<store, initLog, insertLog, searchLog>>
queryVars == <<qPath, qPc, qLocals, qCalls, qResult>>

vars == <<chText, chSize, chOverlap, chOut, tier, indexes, collection,
          store, initLog, insertLog, searchLog, qPath, qPc, qLocals, qCalls,
          qResult, ingest, ui>>

----------------------------------------------------------------------------
(* Bounds of the model. *)

MaxTextLen == 7
MaxChunkSize == 4
MaxWords == 5              \* words of a text made of one-letter words at most
MaxOverlap == 3
EmbeddingDimensions == 2   \* the embedding_dimensions given to the store
MaxDocs == 3               \* documents the collection holds at most
MaxBatch == 2              \* documents in one insert_documents call at most
TopK == 2                  \* the top_k of a query
MaxPages == 1              \* pages of an ingested PDF at most
IngestChunkSize == 2       \* chunk_size of PDFProcessor.process_pdf, in words
IngestOverlap == 1         \* overlap of PDFProcessor.process_pdf, in words
WrapWidth == 3             \* CHUNK_SIZE of embed_doc, in characters
MaxTurns == 2              \* button presses on the Streamlit page at most

\* Program constants.
NumLists == 100
HnswM == 16
EfConstruction == 64

Chars == {"a", "b", " "}
Whitespace == {" ", "\n"}

----------------------------------------------------------------------------
(* Python helpers. *)

Min(a, b) == IF a <= b THEN a ELSE b

\* s[i:j] for 0 <= i, on a sequence indexed from 1 (i and j are 0-based).
Slice(s, i, j) == SubSeq(s, i + 1, Min(j, Len(s)))

\* str.split() with no argument: the maximal runs of non-whitespace
\* characters, in order; leading, trailing and repeated whitespace yield no
\* empty token.
RECURSIVE SplitFrom(_, _, _)
SplitFrom(s, i, cur) ==
    IF i > Len(s)
    THEN IF cur = <<>> THEN <<>> ELSE <<cur>>
    ELSE IF s[i] \in Whitespace
         THEN IF cur = <<>>
              THEN SplitFrom(s, i + 1, <<>>)
              ELSE <<cur>> \o SplitFrom(s, i + 1, <<>>)
         ELSE SplitFrom(s, i + 1, Append(cur, s[i]))

Split(s) == SplitFrom(s, 1, <<>>)

\* " ".join(words)
RECURSIVE Join(_)
Join(words) ==
    IF words = <<>> THEN <<>>
    ELSE IF Len(words) = 1 THEN words[1]
    ELSE words[1] \o <<" ">> \o Join(Tail(words))

\* list(range(0, stop, step)) for step # 0: the offsets 0, step, 2*step, ...
\* below stop; a negative step from 0 yields no offset when stop >= 0.
RECURSIVE RangeFrom(_, _, _)
RangeFrom(i, stop, step) ==
    IF step > 0
    THEN IF i < stop THEN <<i>> \o RangeFrom(i + step, stop, step) ELSE <<>>
    ELSE IF i > stop THEN <<i>> \o RangeFrom(i + step, stop, step) ELSE <<>>

----------------------------------------------------------------------------
(* Chunker: PDFProcessor._chunk_text *)

\* The step of the window loop.
ChunkStepMutant(chunk_size, overlap) == chunk_size

ChunkStep(chunk_size, overlap) == chunk_size - overlap

\* The chunks appended by the loop, one per offset.
ChunkWindows(words, offsets, chunk_size) ==
    [k \in 1..Len(offsets) |->
        Join(Slice(words, offsets[k], offsets[k] + chunk_size))]

\* The whole call: range() raises ValueError for a zero step, before any
\* chunk is produced.
ChunkText(text, chunk_size, overlap) ==
    LET words == Split(text)
        step == ChunkStep(chunk_size, overlap)
    IN  IF step = 0
        THEN [status |-> "ValueError", chunks |-> <<>>]
        ELSE [status |-> "returned",
              chunks |-> ChunkWindows(words, RangeFrom(0, Len(words), step),
                                      chunk_size)]

Texts == UNION {[1..n -> Chars] : n \in 0..MaxTextLen}

\* Longer texts of a plain shape: one-letter words separated by single
\* spaces.
SpacedTexts ==
    {Join(words) :
        words \in UNION {[1..n -> {<<"a">>, <<"b">>}] : n \in 0..MaxWords}}

InitChunker ==
    /\ chText \in Texts \cup SpacedTexts
    /\ chSize \in 1..MaxChunkSize
    /\ chOverlap \in 0..MaxOverlap
    /\ chOut = [status |-> "pending", chunks |-> <<>>]

CallChunkText ==
    /\ chOut.status = "pending"
    /\ chOut' = ChunkText(chText, chSize, chOverlap)
    /\ UNCHANGED <<chText, chSize, chOverlap, backendVars, storeVars, queryVars,
                   ingest, ui>>

\* What a reader of the chunks does to get the text back: the first
\* chunk_size - overlap tokens of each chunk, all tokens of a final chunk
\* shorter than chunk_size, concatenated in chunk order.
RECURSIVE Rejoin(_, _, _, _)
Rejoin(chunks, k, chunk_size, overlap) ==
    IF k > Len(chunks) THEN <<>>
    ELSE LET tokens == Split(chunks[k])
             kept == IF k = Len(chunks) /\ Len(tokens) < chunk_size
                     THEN tokens
                     ELSE Slice(tokens, 0, chunk_size - overlap)
         IN  kept \o Rejoin(chunks, k + 1, chunk_size, overlap)

\* C9: for 0 <= overlap < chunk_size, rejoining the first
\* chunk_size - overlap tokens of each chunk (all tokens of a shorter final
\* chunk) in chunk order gives exactly the token sequence of the text.
C9_RejoinReconstructsTokens ==
    (chOut.status # "pending" /\ chOverlap < chSize) =>
        /\ chOut.status = "returned"
        /\ Rejoin(chOut.chunks, 1, chSize, chOverlap) = Split(chText)

\* A call with a positive overlap that produced at least three chunks, the
\* last one shorter than chunk_size, from a text with two different tokens.
C9_Witness ==
    /\ chOut.status = "returned"
    /\ 0 < chOverlap /\ chOverlap < chSize
    /\ Len(chOut.chunks) >= 3
    /\ Len(Split(chOut.chunks[Len(chOut.chunks)])) < chSize
    /\ Len(Split(chText)) >= 4
    /\ \E i, j \in 1..Len(Split(chText)) : Split(chText)[i] # Split(chText)[j]

\* The last n and the first n elements of a sequence (all of it when it is
\* shorter).
LastWords(words, n) == SubSeq(words, Len(words) - Min(n, Len(words)) + 1, Len(words))
FirstWords(words, n) == SubSeq(words, 1, Min(n, Len(words)))

\* Chunks k and k + 1 share exactly `overlap` words: the last `overlap` words
\* of the one are the first `overlap` words of the other.
SharesOverlap(chunks, k, overlap) ==
    LET earlier == Split(chunks[k])
        later == Split(chunks[k + 1])
    IN  /\ Len(earlier) >= overlap
        /\ Len(later) >= overlap
        /\ LastWords(earlier, overlap) = FirstWords(later, overlap)

\* C15: for 0 <= overlap < chunk_size, every two consecutive chunks of one
\* call, the pair ending in the final chunk aside, share exactly `overlap`
\* words.
C15_ConsecutiveChunksShareOverlap ==
    (chOut.status = "returned" /\ chOverlap < chSize) =>
        \A k \in 1..(Len(chOut.chunks) - 2) :
            SharesOverlap(chOut.chunks, k, chOverlap)

\* C15 for the pairs whose earlier chunk has chunk_size words, the pair
\* ending in the final chunk included.
C15_FullChunksShareOverlap ==
    (chOut.status = "returned" /\ chOverlap < chSize) =>
        \A k \in 1..(Len(chOut.chunks) - 1) :
            Len(Split(chOut.chunks[k])) = chSize
                => SharesOverlap(chOut.chunks, k, chOverlap)

\* C10: a call with overlap >= chunk_size always ends in an error; it never
\* returns a chunk sequence.  (Any raised error is counted as the
\* configuration error here.)
C10_OverlapTooLargeRejected ==
    (chOut.status # "pending" /\ chOverlap >= chSize) =>
        chOut.status # "returned"

----------------------------------------------------------------------------
(* The document-collection backend (Cosmos DB for MongoDB vCore). *)

VectorKinds == {"vector-ivf", "vector-hnsw", "vector-diskann"}

\* The index every collection has from its creation.
IdIndex == [name |-> "_id_", key |-> {"_id"}]

\* The message of the backend's error for a kind the tier does not support.
UnsupportedMessage(kind) ==
    CASE kind = "vector-hnsw" -> "hnsw index is not supported"
      [] kind = "vector-diskann" -> "diskann index is not supported"
      [] OTHER -> "ivf index is not supported"

\* The createIndexes command for one index specification: rejected when the
\* tier does not support the kind, or when an index of that name exists with
\* other options; a no-op when the same index exists; otherwise it may fail
\* for an unrelated reason (fails) or creates the index.
BackendCreateIndex(idxs, supported, spec, fails) ==
    IF spec.cosmosSearchOptions.kind \notin supported
    THEN [ok |-> FALSE, indexes |-> idxs,
          msg |-> UnsupportedMessage(spec.cosmosSearchOptions.kind)]
    ELSE IF \E idx \in idxs : idx.name = spec.name
    THEN IF spec \in idxs
         THEN [ok |-> TRUE, indexes |-> idxs, msg |-> ""]
         ELSE [ok |-> FALSE, indexes |-> idxs, msg |-> "IndexAlreadyExists"]
    ELSE IF fails
    THEN [ok |-> FALSE, indexes |-> idxs, msg |-> "connection reset"]
    ELSE [ok |-> TRUE, indexes |-> idxs \cup {spec}, msg |-> ""]

\* insert_many (ordered): the documents are written in order; when it fails
\* at the document after the first `written` ones, those stay written and
\* BulkWriteError is raised.
BackendInsertMany(coll, documents, written) ==
    IF written = Len(documents)
    THEN [ok |-> TRUE, collection |-> coll \o documents,
          inserted_ids |-> Len(documents)]
    ELSE [ok |-> FALSE, collection |-> coll \o SubSeq(documents, 1, written),
          inserted_ids |-> 0]

----------------------------------------------------------------------------
(* Vector store: CosmosVectorDB *)

\* The i-th unit vector of length n.
UnitVec(n, i) == [k \in 1..n |-> IF k = i THEN 1 ELSE 0]

\* A document as PDFProcessor.process_pdf builds it.
ContentDoc(content, embedding, page, chunk_index) ==
    [content |-> content, embedding |-> embedding, source |-> "doc.pdf",
     page |-> page, chunk_index |-> chunk_index]

\* The documents callers pass to insert_documents: one whose embedding has
\* the configured length and one whose embedding is one element longer.
DocUniverse ==
    {ContentDoc(<<"a">>, UnitVec(EmbeddingDimensions, 1), 1, 0),
     ContentDoc(<<"b">>, UnitVec(EmbeddingDimensions + 1, 1), 1, 1)}

Batches == UNION {[1..n -> DocUniverse] : n \in 0..MaxBatch}

RequestedKinds == {"ivf", "hnsw", "diskann", "vector-hnsw"}

\* index_kind: the requested type with the "vector-" prefix added unless it
\* already starts with it.
IndexKind(vector_index_type) ==
    IF vector_index_type \in VectorKinds
    THEN vector_index_type
    ELSE "vector-" \o vector_index_type

\* cosmos_search_options for a kind, with its type-specific tuning.
CosmosSearchOptions(index_kind, dims) ==
    LET base == [kind |-> index_kind, dimensions |-> dims, similarity |-> "COS"]
    IN  IF index_kind = "vector-ivf"
        THEN base @@ [numLists |-> NumLists]
        ELSE IF index_kind = "vector-hnsw"
        THEN base @@ [m |-> HnswM, efConstruction |-> EfConstruction]
        ELSE base

\* One entry of the 'indexes' list of a createIndexes command.
IndexSpec(options) ==
    [name |-> "vector_index", key |-> {"embedding"},
     cosmosSearchOptions |-> options]

\* The options of the retry after "hnsw index is not supported".
FallbackOptions(dims) ==
    [kind |-> "vector-ivf", numLists |-> NumLists, dimensions |-> dims,
     similarity |-> "COS"]

\* vector_index_exists: some index has 'embedding' among its key's fields.
VectorIndexExistsMutant(idxs) == \E idx \in idxs : "vector" \in idx.key

VectorIndexExists(idxs) == \E idx \in idxs : "embedding" \in idx.key

\* "hnsw index is not supported" in error_msg (the model's messages carry no
\* other text around the phrase).
IsHnswNotSupportedMutant(error_msg) ==
    error_msg = "HNSW index is not supported"

IsHnswNotSupported(error_msg) == error_msg = "hnsw index is not supported"

\* "already exists" in error_msg or "IndexAlreadyExists" in error_msg
IsAlreadyExists(error_msg) ==
    error_msg \in {"already exists", "IndexAlreadyExists"}

\* The except clause of _create_vector_index: what the handler does with the
\* exception raised in the try block, given the state the try block left.
HandleIndexError(self_type, dims, idxs, supported, error_msg, cmds, fail2) ==
    IF IsHnswNotSupported(error_msg)
    THEN LET spec == IndexSpec(FallbackOptions(dims))
             r == BackendCreateIndex(idxs, supported, spec, fail2)
         IN  [vector_index_type |-> IF r.ok THEN "ivf" ELSE self_type,
              indexes |-> r.indexes,
              commands |-> Append(cmds, spec),
              errors |-> IF r.ok THEN <<error_msg>> ELSE <<error_msg, r.msg>>,
              ended |-> IF r.ok THEN "fallback created"
                                ELSE "fallback failed"]
    ELSE IF IsAlreadyExists(error_msg)
    THEN [vector_index_type |-> self_type, indexes |-> idxs,
          commands |-> cmds, errors |-> <<error_msg>>,
          ended |-> "already exists"]
    ELSE [vector_index_type |-> self_type, indexes |-> idxs,
          commands |-> cmds, errors |-> <<error_msg>>, ended |-> "warning"]

\* _create_vector_index as a whole.  listFails, fail1, fail2: whether
\* list_indexes, the first createIndexes and the retry fail for a reason
\* unrelated to the index kind.
CreateVectorIndex(self_type, dims, idxs, supported, listFails, fail1, fail2) ==
    IF listFails
    THEN HandleIndexError(self_type, dims, idxs, supported,
                          "connection reset", <<>>, fail2)
    ELSE IF VectorIndexExists(idxs)
    THEN [vector_index_type |-> self_type, indexes |-> idxs,
          commands |-> <<>>, errors |-> <<>>, ended |-> "exists"]
    ELSE LET spec == IndexSpec(CosmosSearchOptions(IndexKind(self_type), dims))
             r == BackendCreateIndex(idxs, supported, spec, fail1)
         IN  IF r.ok
             THEN [vector_index_type |-> self_type, indexes |-> r.indexes,
                   commands |-> <<spec>>, errors |-> <<>>,
                   ended |-> "created"]
             ELSE HandleIndexError(self_type, dims, idxs, supported, r.msg,
                                   <<spec>>, fail2)

NoStore == [live |-> FALSE]
NoInit == [ended |-> "never"]
NoInsert == [ended |-> "never"]
NoSearch == [ended |-> "never"]

InitBackend ==
    /\ tier \in {{"vector-ivf"} \cup s : s \in SUBSET {"vector-hnsw", "vector-diskann"}}
    /\ indexes = {IdIndex}
    /\ collection = <<>>

InitStore ==
    /\ store = NoStore
    /\ initLog = NoInit
    /\ insertLog = NoInsert
    /\ searchLog = NoSearch

\* CosmosVectorDB.__init__: the fields are set, then _create_vector_index runs.
StoreInit ==
    \E vector_index_type \in RequestedKinds, listFails, fail1, fail2 \in BOOLEAN :
        LET r == CreateVectorIndex(vector_index_type, EmbeddingDimensions,
                                   indexes, tier, listFails, fail1, fail2)
        IN  /\ store' = [live |-> TRUE,
                         embedding_dimensions |-> EmbeddingDimensions,
                         vector_index_type |-> r.vector_index_type]
            /\ indexes' = r.indexes
            /\ initLog' = [requested |-> vector_index_type,
                           indexes_before |-> indexes,
                           commands |-> r.commands,
                           errors |-> r.errors,
                           ended |-> r.ended]
            /\ searchLog' = NoSearch
            /\ UNCHANGED <<tier, collection, insertLog, chunkerVars,
                           queryVars, ingest, ui>>

\* insert_documents, given where insert_many stops (written = the batch
\* length: it does not fail).
InsertDocuments(coll, documents, written) ==
    IF documents = <<>>
    THEN [collection |-> coll, returned |-> 0, ended |-> "no documents"]
    ELSE LET r == BackendInsertMany(coll, documents, written)
         IN  IF r.ok
             THEN [collection |-> r.collection, returned |-> r.inserted_ids,
                   ended |-> "inserted"]
             ELSE [collection |-> r.collection, returned |-> 0,
                   ended |-> "error printed"]

StoreInsert ==
    \E documents \in Batches :
      \E written \in 0..Len(documents) :
        LET r == InsertDocuments(collection, documents, written)
        IN  /\ store.live
            /\ Len(collection) + Len(documents) <= MaxDocs
            /\ collection' = r.collection
            /\ insertLog' = [documents |-> documents,
                             collection_before |-> collection,
                             returned |-> r.returned,
                             ended |-> r.ended]
            /\ searchLog' = NoSearch
            /\ UNCHANGED <<tier, indexes, store, initLog, chunkerVars,
                           queryVars, ingest, ui>>

\* delete_all_documents: delete_many({}) empties the collection, or raises
\* and the error is printed.
StoreDeleteAll ==
    \E fails \in BOOLEAN :
        /\ store.live
        /\ collection' = IF fails THEN collection ELSE <<>>
        /\ searchLog' = NoSearch
        /\ UNCHANGED <<tier, indexes, store, initLog, insertLog, chunkerVars,
                       queryVars, ingest, ui>>

----------------------------------------------------------------------------
(* Claims about the vector store. *)

HasVectorIndex(idxs) == \E idx \in idxs : idx.key = {"embedding"}

VectorIndexKinds(idxs) ==
    {idx.cosmosSearchOptions.kind : idx \in {i \in idxs : i.key = {"embedding"}}}

\* The default tuning of an ivf index.
IvfDefault(dims) ==
    [kind |-> "vector-ivf", dimensions |-> dims, similarity |-> "COS",
     numLists |-> NumLists]

\* What C3 says of an initialization whose first creation attempt the
\* backend answered with the unsupported-kind error for one of `kinds`.
FallsBackToIvf(kinds) ==
    (/\ initLog.ended # "never"
     /\ ~HasVectorIndex(initLog.indexes_before)
     /\ initLog.errors # <<>>
     /\ \E k \in kinds : /\ IndexKind(initLog.requested) = k
                          /\ initLog.errors[1] = UnsupportedMessage(k))
    => /\ Len(initLog.commands) = 2
       /\ initLog.commands[2].cosmosSearchOptions
              = IvfDefault(store.embedding_dimensions)
       /\ Len(initLog.errors) = 1 =>
              /\ store.vector_index_type = "ivf"
              /\ VectorIndexKinds(indexes) = {"vector-ivf"}

C4_EnsureIndexIdempotent ==
    (initLog.ended # "never" /\ HasVectorIndex(initLog.indexes_before)) =>
        /\ initLog.commands = <<>>
        /\ indexes = initLog.indexes_before

\* An initialization that requested hnsw on a tier that supports it, found
\* an ivf index and left it alone.
C4_Witness ==
    /\ initLog.ended = "exists"
    /\ initLog.requested = "hnsw"
    /\ "vector-hnsw" \in tier
    /\ VectorIndexKinds(indexes) = {"vector-ivf"}

\* The recorded index kind is the kind of the vector index the collection
\* has.
RecordedKindMatchesIndex ==
    VectorIndexKinds(indexes) = {IndexKind(store.vector_index_type)}

\* C13: after an initialization, when the collection has a vector index,
\* the kind the store records is the kind of that index; also when an index
\* of another kind than the requested one was found, and when the ivf retry
\* failed.
C13_RecordedKindMatchesIndex ==
    (store.live /\ HasVectorIndex(indexes)) => RecordedKindMatchesIndex

\* C13 for an initialization that created the index itself, at the first
\* attempt or at the ivf retry.
C13_CreatedKindIsRecorded ==
    (initLog.ended \in {"created", "fallback created"})
        => RecordedKindMatchesIndex

HasMismatch(documents, dims) ==
    \E i \in 1..Len(documents) : Len(documents[i].embedding) # dims

\* C5: a batch with a record whose embedding length differs from the
\* configured dimensions is rejected whole, none of its records persisted;
\* so every record of the collection has an embedding of that length.
C5_MismatchedBatchRejected ==
    /\ (/\ insertLog.ended # "never"
        /\ HasMismatch(insertLog.documents, store.embedding_dimensions))
       => /\ insertLog.ended \notin {"inserted", "no documents"}
          /\ collection = insertLog.collection_before
    /\ \A i \in 1..Len(collection) :
          Len(collection[i].embedding) = EmbeddingDimensions

----------------------------------------------------------------------------
(* Retrieval: Retrieval.search_similar_chunks (both modules) *)

\* A document as embed_doc.process_pdf builds it.
TextDoc(chunk_id, text, embedding) ==
    [chunk_id |-> chunk_id, text |-> text, embedding |-> embedding]

Dot(u, v) ==
    LET RECURSIVE Sum(_)
        Sum(k) == IF k = 0 THEN 0 ELSE u[k] * v[k] + Sum(k - 1)
    IN  Sum(Len(u))

\* The $search stage: the documents that have an embedding which can be
\* compared with the query vector, by descending similarity, ties in collection order, the
\* first k of them; each with its score.
RECURSIVE Ranked(_, _)
Ranked(coll, q) ==
    LET cand == {i \in 1..Len(coll) :
                    /\ "embedding" \in DOMAIN coll[i]
                    /\ Len(coll[i].embedding) = Len(q)}
    IN  IF cand = {} THEN <<>>
        ELSE LET best == CHOOSE i \in cand :
                           \A j \in cand :
                              \/ Dot(coll[i].embedding, q) > Dot(coll[j].embedding, q)
                              \/ /\ Dot(coll[i].embedding, q) = Dot(coll[j].embedding, q)
                                 /\ i <= j
                 rest == [k \in 1..(Len(coll) - 1) |->
                            IF k < best THEN coll[k] ELSE coll[k + 1]]
             IN  <<[doc |-> coll[best], score |-> Dot(coll[best].embedding, q)]>>
                 \o Ranked(rest, q)

BackendSearch(coll, q, k) == Slice(Ranked(coll, q), 0, k)

\* The $project stage: the listed fields the document has, and the score.
Project(hit, fields) ==
    [f \in (DOMAIN hit.doc \cap fields) \cup {"similarity_score"} |->
        IF f = "similarity_score" THEN hit.score ELSE hit.doc[f]]

\* The aggregation of search_similar_chunks.
SearchSimilarChunks(coll, query_embedding, top_k) ==
    LET hits == BackendSearch(coll, query_embedding, top_k)
    IN  [i \in 1..Len(hits) |->
            Project(hits[i], {"chunk_id", "text", "embedding"})]

----------------------------------------------------------------------------
(* Orchestrator: get_response of agents/autogen_module.py ("agents") and of
   autogen_module.py ("legacy") *)

NoneVal == [t |-> "none"]
Str(s) == [t |-> "str", s |-> s]

\* Python truthiness of a value that is None or a string.
Truthy(v) == v.t = "str" /\ v.s # <<>>

Paths == {"agents", "legacy"}
Queries == {<<"q">>}

\* str(e) of the exceptions the providers and the backend raise.
ProviderErrors == {<<"quota exceeded">>, <<"timeout">>}
BackendErrors == {<<"connection reset">>}
KeyErrorText == <<"'text'">>

SafeError ==
    <<"An error occurred while processing your request. Please try again later.">>
NotFoundMessage ==
    <<"Sorry, I could not find relevant information in the PDF.">>
ErrorPrefix == <<"Error generating response: ">>

AgentSystemMessage ==
    <<"You are a helpful mobile store assistant. Answer concisely using any retrieved context.">>
FallbackInstruction ==
    <<"You are a helpful mobile store assistant.",
      "Use the context below to answer the user's query concisely and accurately.",
      "Do not answer if the question is unrelated to the context.",
      "Answer in a professional manner and check the database carefully before answering.">>
LegacyInstruction ==
    <<"You are a helpful mobile store assistant.",
      "Use the context below to answer user's query concisely and accurately.">>

\* What a capability call does: raise, or return a value.
Raise(e) == [raised |-> TRUE, err |-> e]
Return(v) == [raised |-> FALSE, value |-> v]

EmbedOutcomes ==
    {Raise(e) : e \in ProviderErrors}
    \cup {Return(UnitVec(EmbeddingDimensions, i)) : i \in 1..EmbeddingDimensions}

\* message.content of a chat completion: None, empty or a text.
GenOutcomes ==
    {Raise(e) : e \in ProviderErrors}
    \cup {Return(v) : v \in {NoneVal, Str(<<>>), Str(<<"answer 1">>),
                             Str(<<"answer 2">>)}}

\* "\n\n".join(texts)
RECURSIVE JoinBlank(_)
JoinBlank(texts) ==
    IF texts = <<>> THEN <<>>
    ELSE IF Len(texts) = 1 THEN texts[1]
    ELSE texts[1] \o <<"\n\n">> \o JoinBlank(Tail(texts))

\* The f-string prompts.
Prompt(instruction, context, user_query) ==
    instruction \o <<"Context:">> \o context \o <<"Question: ">> \o user_query
    \o <<"Answer:">>

\* The except clause of get_response: what the caller gets for exception e.
ExceptClause(path, e) ==
    IF path = "agents"
    THEN Return(Str(SafeError))
    ELSE Return(Str(ErrorPrefix \o e))

\* [c["text"] for c in top_chunks]: KeyError when a chunk has no "text".
ChunkTexts(top_chunks) ==
    IF \A i \in 1..Len(top_chunks) : "text" \in DOMAIN top_chunks[i]
    THEN Return([i \in 1..Len(top_chunks) |-> top_chunks[i].text])
    ELSE Raise(KeyErrorText)

\* From the search result to the context, or to an early end of the call.
\* proceed: the generation call is made next, with this context.
BuildContext(path, top_chunks) ==
    IF top_chunks = <<>>
    THEN IF path = "agents"
         THEN [proceed |-> TRUE, context |-> <<>>]
         ELSE [proceed |-> FALSE, result |-> Return(Str(NotFoundMessage))]
    ELSE LET texts == ChunkTexts(top_chunks)
         IN  IF texts.raised
             THEN [proceed |-> FALSE, result |-> ExceptClause(path, texts.err)]
             ELSE [proceed |-> TRUE, context |-> JoinBlank(texts.value)]

\* AssistantAgent.get_response: the completion's content, None on any
\* exception.
AgentGetResponseMutant(out) == IF out.raised THEN Str(out.err) ELSE out.value

AgentGetResponse(out) == IF out.raised THEN NoneVal ELSE out.value

\* if agent_response: return agent_response -- otherwise the fallback runs.
AgentAnsweredMutant(agent_response) == ~Truthy(agent_response)

AgentAnswered(agent_response) == Truthy(agent_response)

Call(cap, input) == [cap |-> cap, input |-> input]

NoLocals == [query |-> <<>>]
Pending == [raised |-> FALSE, value |-> NoneVal, pending |-> TRUE]

QueryAtRest ==
    /\ qPath = "agents"
    /\ qPc = "idle"
    /\ qLocals = NoLocals
    /\ qCalls = <<>>
    /\ qResult = Pending

\* get_response is entered.
QueryStart ==
    \E path \in Paths, user_query \in Queries :
        /\ qPc = "idle"
        /\ qPath' = path
        /\ qPc' = "embedding"
        /\ qLocals' = [query |-> user_query]
        /\ qCalls' = <<>>
        /\ qResult' = Pending
        /\ UNCHANGED <<chunkerVars, backendVars, storeVars, ingest, ui>>

\* generate_query_embedding: the provider's answer; an exception leaves
\* search_similar_chunks and reaches the except clause of get_response.
QueryEmbed ==
    \E out \in EmbedOutcomes :
        /\ qPc = "embedding"
        /\ qCalls' = Append(qCalls, Call("embed", qLocals.query))
        /\ IF out.raised
           THEN /\ qResult' = ExceptClause(qPath, out.err)
                /\ qPc' = "done"
                /\ qLocals' = qLocals @@ [embed_error |-> out.err]
           ELSE /\ qLocals' = qLocals @@ [query_embedding |-> out.value]
                /\ qPc' = "searching"
                /\ UNCHANGED qResult
        /\ UNCHANGED <<qPath, chunkerVars, backendVars, storeVars, ingest, ui>>

\* The aggregation, and the building of the context from its result.
QuerySearch ==
    /\ qPc = "searching"
    /\ \E out \in {Raise(e) : e \in BackendErrors}
                  \cup {Return(SearchSimilarChunks(collection,
                                   qLocals.query_embedding, TopK))} :
        /\ qCalls' = Append(qCalls, Call("search", qLocals.query_embedding))
        /\ IF out.raised
           THEN /\ qResult' = ExceptClause(qPath, out.err)
                /\ qPc' = "done"
                /\ qLocals' = qLocals @@ [search_error |-> out.err]
           ELSE LET c == BuildContext(qPath, out.value)
                IN  /\ qLocals' = qLocals @@
                           (IF c.proceed
                            THEN [top_chunks |-> out.value, context |-> c.context]
                            ELSE [top_chunks |-> out.value])
                    /\ qPc' = IF c.proceed THEN "primary" ELSE "done"
                    /\ qResult' = IF c.proceed THEN qResult ELSE c.result
    /\ UNCHANGED <<qPath, chunkerVars, backendVars, storeVars, ingest, ui>>

\* The first generation call: the AssistantAgent ("agents"), or the chat
\* deployment itself ("legacy").
QueryPrimary ==
    \E out \in GenOutcomes :
        /\ qPc = "primary"
        /\ IF qPath = "agents"
           THEN LET agent_response == AgentGetResponse(out)
                IN  /\ qCalls' = Append(qCalls,
                          Call("primary", Prompt(AgentSystemMessage,
                                                 qLocals.context, qLocals.query)))
                    /\ qLocals' = qLocals @@ [primary |-> out,
                                              agent_response |-> agent_response]
                    /\ IF AgentAnswered(agent_response)
                       THEN qPc' = "done" /\ qResult' = Return(agent_response)
                       ELSE qPc' = "fallback" /\ UNCHANGED qResult
           ELSE /\ qCalls' = Append(qCalls,
                      Call("primary", Prompt(LegacyInstruction,
                                             qLocals.context, qLocals.query)))
                /\ qLocals' = qLocals @@ [primary |-> out]
                /\ qPc' = "done"
                /\ qResult' = IF out.raised
                              THEN ExceptClause(qPath, out.err)
                              ELSE Return(out.value)
        /\ UNCHANGED <<qPath, chunkerVars, backendVars, storeVars, ingest, ui>>

\* The fallback generation call of the "agents" get_response.
FallbackResult(out) ==
    IF out.raised THEN ExceptClause("agents", out.err) ELSE Return(out.value)

QueryFallback ==
    \E out \in GenOutcomes :
        /\ qPc = "fallback"
        /\ qCalls' = Append(qCalls,
              Call("fallback", Prompt(FallbackInstruction,
                                      qLocals.context, qLocals.query)))
        /\ qLocals' = qLocals @@ [fallback |-> out]
        /\ qPc' = "done"
        /\ qResult' = FallbackResult(out)
        /\ UNCHANGED <<qPath, chunkerVars, backendVars, storeVars, ingest, ui>>

----------------------------------------------------------------------------
(* Claims about the orchestrator. *)

\* Whether a generation call failed: it raised, or returned None or "".
Failed(out) == IF out.raised THEN TRUE ELSE ~Truthy(out.value)

PrimaryFailed == "primary" \in DOMAIN qLocals /\ Failed(qLocals.primary)
FallbackFailed == "fallback" \in DOMAIN qLocals /\ Failed(qLocals.fallback)

CallsTo(cap) == {i \in 1..Len(qCalls) : qCalls[i].cap = cap}

\* The pieces of the messages of the exceptions that can be raised.
ExceptionPieces ==
    UNION {{e[i] : i \in 1..Len(e)} :
             e \in ProviderErrors \cup BackendErrors \cup {KeyErrorText}}

\* The returned text carries raw exception text.
LeaksExceptionText(v) ==
    v.t = "str" /\ \E i \in 1..Len(v.s) : v.s[i] \in ExceptionPieces

\* C1: in the get_response that has a fallback (agents/autogen_module.py),
\* once embedding and search have succeeded and the primary generation has
\* raised or returned None or "", the fallback generation is invoked, once
\* and after the primary, and what it returns is what the caller gets.  (The
\* function returns the bare text; that the fallback was used shows as the
\* fallback invocation.)
C1_PrimaryFailureUsesFallback ==
    (qPath = "agents" /\ qPc = "done" /\ PrimaryFailed) =>
        /\ Cardinality(CallsTo("fallback")) = 1
        /\ \A i \in CallsTo("primary"), j \in CallsTo("fallback") : i < j
        /\ "fallback" \in DOMAIN qLocals
        /\ ~qLocals.fallback.raised =>
              qResult = Return(qLocals.fallback.value)

\* The primary generation raised and the fallback's answer was returned.
C1_Witness ==
    /\ qPath = "agents" /\ qPc = "done"
    /\ "primary" \in DOMAIN qLocals /\ qLocals.primary.raised
    /\ "fallback" \in DOMAIN qLocals
    /\ qLocals.fallback = Return(Str(<<"answer 2">>))
    /\ qResult = Return(Str(<<"answer 2">>))
    /\ Len(qCalls) = 4

\* C2: when the primary generation fails and the fallback generation fails
\* too (each: raises, or returns None or ""), the caller gets the one fixed
\* safe error string, no exception, and no raw exception text.
C2_BothFailReturnsSafeError ==
    (qPc = "done" /\ PrimaryFailed /\ FallbackFailed) =>
        /\ ~qResult.raised
        /\ qResult.value = Str(SafeError)
        /\ ~LeaksExceptionText(qResult.value)

\* C2, second half alone, for either get_response: whatever fails, the
\* caller gets no raw exception text.
C2_NoRawExceptionText ==
    (qPc = "done" /\ ~qResult.raised) => ~LeaksExceptionText(qResult.value)

\* The generation calls that returned (did not raise), in call order.
GenerationOutputs ==
    (IF "primary" \in DOMAIN qLocals /\ ~qLocals.primary.raised
     THEN <<qLocals.primary.value>> ELSE <<>>)
    \o (IF "fallback" \in DOMAIN qLocals /\ ~qLocals.fallback.raised
        THEN <<qLocals.fallback.value>> ELSE <<>>)

\* The generation call made last raised (the except clause then decides
\* what the caller gets).
LastGenerationRaised ==
    IF "fallback" \in DOMAIN qLocals
    THEN qLocals.fallback.raised
    ELSE "primary" \in DOMAIN qLocals /\ qLocals.primary.raised

EmptySearch == "top_chunks" \in DOMAIN qLocals /\ qLocals.top_chunks = <<>>

\* What C7 says of a finished query on the paths in `paths`.
EmptySearchStillGenerates(paths) ==
    (qPath \in paths /\ qPc = "done" /\ EmptySearch) =>
        /\ \E i \in CallsTo("primary") :
              \E instruction \in {AgentSystemMessage, LegacyInstruction} :
                 qCalls[i].input = Prompt(instruction, <<>>, qLocals.query)
        /\ \/ \E k \in 1..Len(GenerationOutputs) :
                 qResult = Return(GenerationOutputs[k])
           \/ LastGenerationRaised

\* C7: when the search returns no result, get_response does not return
\* early: the primary generation is invoked with an empty context, and the
\* caller gets a generation's output (unless the last generation call
\* raised).
C7_EmptySearchStillGenerates == EmptySearchStillGenerates(Paths)

\* C7 on agents/autogen_module.py alone.
C7_AgentsEmptySearchStillGenerates == EmptySearchStillGenerates({"agents"})

\* What C8 says of a finished query on the paths in `paths`.
EmbeddingFailureIsSafe(paths) ==
    (qPath \in paths /\ qPc = "done" /\ "embed_error" \in DOMAIN qLocals) =>
        /\ ~qResult.raised
        /\ qResult.value.t = "str"
        /\ ~LeaksExceptionText(qResult.value)
        /\ CallsTo("search") = {}
        /\ CallsTo("primary") = {} /\ CallsTo("fallback") = {}

\* C8: when embedding the query fails, the caller gets a fixed generic
\* error whose text does not carry the provider's error, no exception is
\* raised, and neither the search nor a generation capability is invoked.
C8_EmbeddingFailureIsSafe == EmbeddingFailureIsSafe(Paths)

\* C8 on agents/autogen_module.py alone.
C8_AgentsEmbeddingFailureIsSafe == EmbeddingFailureIsSafe({"agents"})

\* The capabilities invoked so far, in invocation order.
CallOrder == [i \in 1..Len(qCalls) |-> qCalls[i].cap]

Stages == <<"embed", "search", "primary", "fallback">>

\* C14: in the get_response of agents/autogen_module.py the capabilities
\* are invoked in the order embedding, search, primary generation, fallback
\* generation, each at most once; the fallback is invoked only after the
\* primary was invoked and raised or returned None or ""; and when the
\* primary returns non-empty text, that text is what the caller gets and
\* the fallback is not invoked.
C14_StagesRunInOrder ==
    (qPath = "agents") =>
        /\ Len(qCalls) <= Len(Stages)
        /\ CallOrder = SubSeq(Stages, 1, Len(qCalls))
        /\ CallsTo("fallback") # {} => PrimaryFailed
        /\ ("primary" \in DOMAIN qLocals /\ ~Failed(qLocals.primary)) =>
              /\ qPc = "done"
              /\ qResult = Return(qLocals.primary.value)
              /\ CallsTo("fallback") = {}

\* A query whose primary generation returned "" and whose fallback then
\* answered: all four stages ran, in order.
C14_Witness ==
    /\ qPath = "agents" /\ qPc = "done"
    /\ CallOrder = Stages
    /\ qLocals.primary = Return(Str(<<>>))
    /\ qLocals.fallback = Return(Str(<<"answer 1">>))
    /\ qResult = Return(Str(<<"answer 1">>))

\* The field names a stored record's text has had, the canonical one first.
TextFieldNames == <<"content", "text_chunk", "text">>

\* The text of a stored record: the value under the first of the field
\* names the record has.
RecordText(d) ==
    LET has == {n \in 1..Len(TextFieldNames) : TextFieldNames[n] \in DOMAIN d}
        first == CHOOSE n \in has : \A o \in has : n <= o
    IN  d[TextFieldNames[first]]

\* The texts a search result carries, under any of the field names.
ResultTexts(r) ==
    {r[TextFieldNames[n]] :
        n \in {o \in 1..Len(TextFieldNames) : TextFieldNames[o] \in DOMAIN r}}

\* The records the search of the query matched, best first.
MatchedRecords ==
    LET hits == BackendSearch(collection, qLocals.query_embedding, TopK)
    IN  [i \in 1..Len(hits) |-> hits[i].doc]

\* What C12 says of a query whose search returned, when every matched
\* record holds its text under field names in `names` only.
ResultsCarryRecordText(names) ==
    (/\ "top_chunks" \in DOMAIN qLocals
     /\ qLocals.top_chunks # <<>>
     /\ \A i \in 1..Len(MatchedRecords) :
           \A n \in 1..Len(TextFieldNames) :
              TextFieldNames[n] \in DOMAIN MatchedRecords[i]
                 => TextFieldNames[n] \in names)
    => /\ Len(qLocals.top_chunks) = Len(MatchedRecords)
       /\ \A i \in 1..Len(MatchedRecords) :
             ResultTexts(qLocals.top_chunks[i]) = {RecordText(MatchedRecords[i])}
       /\ "context" \in DOMAIN qLocals
       /\ qLocals.context
             = JoinBlank([i \in 1..Len(MatchedRecords) |->
                             RecordText(MatchedRecords[i])])

\* C12: whichever of content, text_chunk and text holds the text of a
\* matched record, the search result carries that text (the value under
\* content when the record has several of the names), and get_response
\* builds its context from the results' texts.
C12_ResultsCarryRecordText ==
    ResultsCarryRecordText({"content", "text_chunk", "text"})

\* C12 for records that hold their text under the name text only, as
\* embed_doc.process_pdf writes them.
C12_TextRecordsCarryText == ResultsCarryRecordText({"text"})

----------------------------------------------------------------------------
(* Search calls: CosmosVectorDB.vector_search ("vector_search") and
   Retrieval.search_similar_chunks ("search_similar_chunks") *)

SearchPaths == {"vector_search", "search_similar_chunks"}

NoVectorIndexError == <<"no vector index on path embedding">>

\* collection.aggregate up to the $search stage.  It raises when the
\* connection fails (fails); on a collection without a vector index the
\* backend either rejects the $search stage or answers it by a scan
\* (needsIndex: which of the two this backend does).
BackendAggregate(coll, idxs, q, k, fails, needsIndex) ==
    IF fails
    THEN Raise(CHOOSE e \in BackendErrors : TRUE)
    ELSE IF needsIndex /\ ~VectorIndexExists(idxs)
    THEN Raise(NoVectorIndexError)
    ELSE Return(BackendSearch(coll, q, k))

\* "content": {"$ifNull": ["$content", "$text_chunk"]}: the document's
\* content, else its text_chunk; the field is left out when it has neither.
IfNullContent(doc) ==
    IF "content" \in DOMAIN doc THEN [content |-> doc.content]
    ELSE IF "text_chunk" \in DOMAIN doc THEN [content |-> doc.text_chunk]
    ELSE <<>>

\* The $project stage of vector_search.
ProjectVectorSearch(hit) ==
    IfNullContent(hit.doc)
    @@ Project(hit, {"source", "page", "chunk_index"})

\* vector_search: the projected results; [] on any exception.
VectorSearch(coll, idxs, query_embedding, top_k, fails, needsIndex) ==
    LET r == BackendAggregate(coll, idxs, query_embedding, top_k, fails,
                              needsIndex)
    IN  IF r.raised
        THEN Return(<<>>)
        ELSE Return([i \in 1..Len(r.value) |-> ProjectVectorSearch(r.value[i])])

\* search_similar_chunks from the aggregation on: the projected results; an
\* exception of aggregate leaves the method.
SearchSimilarChunksCall(coll, idxs, query_embedding, top_k, fails, needsIndex) ==
    LET r == BackendAggregate(coll, idxs, query_embedding, top_k, fails,
                              needsIndex)
    IN  IF r.raised
        THEN r
        ELSE Return([i \in 1..Len(r.value) |->
                        Project(r.value[i], {"chunk_id", "text", "embedding"})])

\* One search call on the collection as it is, by either method.
StoreSearch ==
    \E path \in SearchPaths, i \in 1..EmbeddingDimensions,
       fails, needsIndex \in BOOLEAN :
        LET q == UnitVec(EmbeddingDimensions, i)
            b == BackendAggregate(collection, indexes, q, TopK, fails,
                                  needsIndex)
            r == IF path = "vector_search"
                 THEN VectorSearch(collection, indexes, q, TopK, fails,
                                   needsIndex)
                 ELSE SearchSimilarChunksCall(collection, indexes, q, TopK,
                                              fails, needsIndex)
        IN  /\ store.live
            /\ searchLog' = [ended |-> IF r.raised THEN "raised" ELSE "returned",
                             path |-> path,
                             backend |-> b,
                             result |-> r]
            /\ UNCHANGED <<backendVars, store, initLog, insertLog, chunkerVars,
                           queryVars, ingest, ui>>

\* What C11 says of a search call by one of the methods in `paths`.
SearchNeverErrors(paths) ==
    (/\ searchLog.ended # "never"
     /\ searchLog.path \in paths
     /\ \/ collection = <<>>
        \/ searchLog.backend = Return(<<>>))
    => searchLog.result = Return(<<>>)

\* C11: a search on an empty collection, or one for which the backend
\* yields no match, returns the empty sequence and raises nothing, in every
\* state of the store, a store without a vector index included.
C11_EmptySearchReturnsEmpty == SearchNeverErrors(SearchPaths)

\* C11 on CosmosVectorDB.vector_search alone.
C11_VectorSearchNeverErrors == SearchNeverErrors({"vector_search"})

----------------------------------------------------------------------------
(* Ingestion: PDFProcessor.process_pdf followed by insert_documents
   ("pdf_processor"), and process_pdf of embed_doc.py ("embed_doc") *)

IngestPaths == {"pdf_processor", "embed_doc"}

\* The text extract_text() gives for a page.
PageTexts == {<<>>, <<"a">>, <<"a", " ", "b">>, <<"a", " ", "b", " ", "a">>}

Documents == UNION {[1..n -> PageTexts] : n \in 1..MaxPages}

\* The loop over the pages of PDFProcessor.process_pdf, as the list of the
\* chunks it will embed: pages without text are skipped, the others are
\* chunked, and each chunk keeps its page number (from 1) and its index.
RECURSIVE PdfChunks(_, _)
PdfChunks(pages, page_num) ==
    IF page_num >= Len(pages) THEN <<>>
    ELSE LET text == pages[page_num + 1]
             chunks == IF text = <<>> THEN <<>>
                       ELSE ChunkText(text, IngestChunkSize, IngestOverlap).chunks
         IN  [idx \in 1..Len(chunks) |->
                 [text |-> chunks[idx], page |-> page_num + 1,
                  chunk_index |-> idx - 1]]
             \o PdfChunks(pages, page_num + 1)

\* full_text of extract_pdf_chunks: each page's text, when it has any,
\* followed by a newline.
RECURSIVE FullText(_)
FullText(pages) ==
    IF pages = <<>> THEN <<>>
    ELSE (IF pages[1] = <<>> THEN <<>> ELSE pages[1] \o <<"\n">>)
         \o FullText(Tail(pages))

\* textwrap.wrap(text, width), for a text whose words are no longer than
\* width and are separated by single whitespace characters, as the page
\* texts are: lines are filled greedily with whole words.
RECURSIVE WrapWords(_, _, _)
WrapWords(words, cur, width) ==
    IF words = <<>>
    THEN IF cur = <<>> THEN <<>> ELSE <<cur>>
    ELSE IF cur = <<>>
    THEN WrapWords(Tail(words), words[1], width)
    ELSE IF Len(cur) + 1 + Len(words[1]) <= width
    THEN WrapWords(Tail(words), cur \o <<" ">> \o words[1], width)
    ELSE <<cur>> \o WrapWords(Tail(words), words[1], width)

\* extract_pdf_chunks, as the list of the chunks process_pdf will embed,
\* each with its chunk_id (from 1).
ExtractPdfChunks(pages) ==
    LET lines == WrapWords(Split(FullText(pages)), <<>>, WrapWidth)
    IN  [i \in 1..Len(lines) |-> [text |-> lines[i], chunk_id |-> i]]

\* PDFProcessor._get_embedding: the provider's vector, [] on any exception.
GetEmbedding(out) == IF out.raised THEN <<>> ELSE out.value

IngestAtRest ==
    ingest = [pc |-> "idle", path |-> "pdf_processor", chunks |-> <<>>,
              outcomes |-> <<>>, documents |-> <<>>, base |-> 0,
              write_failed |-> FALSE]

\* The ingestion of a PDF is started; the chunks are cut.
IngestStart ==
    \E path \in IngestPaths, pages \in Documents :
        LET chunks == IF path = "pdf_processor"
                      THEN PdfChunks(pages, 0)
                      ELSE ExtractPdfChunks(pages)
        IN  /\ ingest.pc = "idle"
            /\ ingest' = [pc |-> IF chunks = <<>>
                                 THEN (IF path = "pdf_processor"
                                       THEN "inserting" ELSE "done")
                                 ELSE "embedding",
                          path |-> path, chunks |-> chunks,
                          outcomes |-> <<>>, documents |-> <<>>,
                          base |-> Len(collection), write_failed |-> FALSE]
            /\ UNCHANGED <<chunkerVars, backendVars, storeVars, queryVars, ui>>

\* One turn of the loop over the chunks: the chunk is embedded;
\* PDFProcessor keeps the document when it got an embedding, embed_doc
\* inserts the document at once, and an exception of its embedding call or
\* of insert_one ends process_pdf.
IngestEmbed ==
    /\ ingest.pc = "embedding"
    /\ \E out \in EmbedOutcomes, insertFails \in BOOLEAN :
         LET k == Len(ingest.outcomes) + 1
             chunk == ingest.chunks[k]
             last == k = Len(ingest.chunks)
         IN  IF ingest.path = "pdf_processor"
             THEN LET embedding == GetEmbedding(out)
                  IN  /\ ~insertFails
                      /\ ingest' = [ingest EXCEPT
                            !.outcomes = Append(@, out),
                            !.documents =
                                IF embedding # <<>>
                                THEN Append(@, ContentDoc(chunk.text, embedding,
                                                chunk.page, chunk.chunk_index))
                                ELSE @,
                            !.pc = IF last THEN "inserting" ELSE "embedding"]
                      /\ UNCHANGED collection
             ELSE IF out.raised
             THEN /\ ~insertFails
                  /\ ingest' = [ingest EXCEPT !.outcomes = Append(@, out),
                                              !.pc = "aborted"]
                  /\ UNCHANGED collection
             ELSE IF insertFails
             THEN /\ ingest' = [ingest EXCEPT !.outcomes = Append(@, out),
                                              !.write_failed = TRUE,
                                              !.pc = "aborted"]
                  /\ UNCHANGED collection
             ELSE /\ ingest' = [ingest EXCEPT
                                   !.outcomes = Append(@, out),
                                   !.pc = IF last THEN "done" ELSE "embedding"]
                  /\ collection' = Append(collection,
                        TextDoc(chunk.chunk_id, chunk.text, out.value))
    /\ UNCHANGED <<tier, indexes, chunkerVars, storeVars, queryVars, ui>>

\* The documents process_pdf returned are passed to insert_documents in one
\* batch.
IngestInsert ==
    /\ ingest.pc = "inserting"
    /\ \E written \in 0..Len(ingest.documents) :
         LET r == InsertDocuments(collection, ingest.documents, written)
         IN  /\ collection' = r.collection
             /\ insertLog' = [documents |-> ingest.documents,
                              collection_before |-> collection,
                              returned |-> r.returned,
                              ended |-> r.ended]
             /\ ingest' = [ingest EXCEPT
                              !.pc = "done",
                              !.write_failed = (written < Len(ingest.documents))]
    /\ UNCHANGED <<tier, indexes, store, initLog, searchLog, chunkerVars,
                   queryVars, ui>>

----------------------------------------------------------------------------
(* Claims about ingestion. *)

\* The text of a stored record, under either field name.
StoredText(d) == IF "content" \in DOMAIN d THEN d.content ELSE d.text

\* The texts of the records the ingestion has stored.
StoredTexts ==
    [i \in 1..(Len(collection) - ingest.base) |->
        StoredText(collection[ingest.base + i])]

\* The texts of the chunks whose embedding succeeded, in chunk order; a
\* chunk whose embedding was never attempted is not among them.
RECURSIVE EmbeddedTexts(_)
EmbeddedTexts(k) ==
    IF k = 0 THEN <<>>
    ELSE EmbeddedTexts(k - 1)
         \o (IF k <= Len(ingest.outcomes) /\ ~ingest.outcomes[k].raised
             THEN <<ingest.chunks[k].text>> ELSE <<>>)

\* What C6 says of an ingestion on the paths in `paths` that has ended
\* without a failed write to the collection.
IngestionIsBestEffort(paths) ==
    (/\ ingest.path \in paths
     /\ ingest.pc \in {"done", "aborted"}
     /\ ~ingest.write_failed)
    => /\ ingest.pc = "done"
       /\ Len(ingest.outcomes) = Len(ingest.chunks)
       /\ StoredTexts = EmbeddedTexts(Len(ingest.chunks))

\* C6: whichever chunks fail to embed, the ingestion runs to completion
\* and the records stored for the document are exactly the chunks whose
\* embedding succeeded; a failing chunk does not keep later chunks from
\* being embedded and stored.
C6_IngestionIsBestEffort == IngestionIsBestEffort(IngestPaths)

\* C6 on PDFProcessor.process_pdf followed by insert_documents alone.
C6_PdfProcessorIsBestEffort == IngestionIsBestEffort({"pdf_processor"})

\* What C16 says of an ingestion on the paths in `paths`: until every
\* chunk has been embedded or has failed, and also when the ingestion is
\* given up before, the collection is as the ingestion found it; and what
\* the ingestion has stored at its end was written by one insert_documents
\* call.
SingleBatchedInsert(paths) ==
    (ingest.path \in paths) =>
        /\ ingest.pc \in {"embedding", "inserting", "aborted"} =>
              Len(collection) = ingest.base
        /\ (ingest.pc = "done" /\ Len(collection) > ingest.base) =>
              /\ insertLog.ended # "never"
              /\ Len(insertLog.collection_before) = ingest.base
              /\ insertLog.documents = ingest.documents

\* C16: the records of a document are written by a single batched insert,
\* issued after every chunk has been embedded or has failed; before it no
\* record of the document is in the collection, so an ingestion that stops
\* before the insert leaves the collection unchanged.
C16_SingleBatchedInsert == SingleBatchedInsert(IngestPaths)

\* C16 on PDFProcessor.process_pdf followed by insert_documents alone.
C16_PdfProcessorSingleBatchedInsert == SingleBatchedInsert({"pdf_processor"})

----------------------------------------------------------------------------
(* The Streamlit pages: streamlit/streamlit_ui.py ("flask": it posts the
   question to the Flask route of app.py, which calls the get_response of
   agents/autogen_module.py) and streamlit_ui.py ("legacy": it calls the
   get_response of autogen_module.py itself) *)

UiVariants == {"flask", "legacy"}

\* A chat turn as the pages store it.
ChatDoc(role, content) == [role |-> role, content |-> content]

\* chat_collection = db[COSMOS_COLLECTION_NAME], with the name taken from
\* config.settings: ui.shared tells whether that is the collection the
\* retrieval and ingestion modules open under os.getenv("COSMOS_COLLECTION_NAME").
\* When it is not, the chat turns are in ui.chat.
InitUi ==
    ui \in [variant : UiVariants, shared : BOOLEAN, pc : {"idle"},
            turns : {0}, chat : {<<>>}, notice : {""}]

UiAtRest ==
    ui = [variant |-> "flask", shared |-> FALSE, pc |-> "idle", turns |-> 0,
          chat |-> <<>>, notice |-> ""]

\* The text get_response gave, as the page stores it.
AnswerContent(v) == IF v.t = "str" THEN v.s ELSE v

\* The turns the page records after an answer: the question, and on the
\* legacy page the answer too.
ChatTurns(variant, user_query, answer) ==
    IF variant = "flask"
    THEN <<ChatDoc("user", user_query)>>
    ELSE <<ChatDoc("user", user_query), ChatDoc("bot", AnswerContent(answer))>>

\* The Ask button with a non-blank question: get_response is entered.
UiAsk ==
    \E user_query \in Queries :
        /\ ui.pc = "idle"
        /\ qPc = "idle"
        /\ ui.turns < MaxTurns
        /\ ui' = [ui EXCEPT !.pc = "thinking", !.turns = @ + 1, !.notice = ""]
        /\ qPath' = IF ui.variant = "flask" THEN "agents" ELSE "legacy"
        /\ qPc' = "embedding"
        /\ qLocals' = [query |-> user_query]
        /\ qCalls' = <<>>
        /\ qResult' = Pending
        /\ UNCHANGED <<chunkerVars, backendVars, storeVars, ingest>>

\* The answer is shown and the turn is recorded with insert_one, once per
\* chat document; an insert_one that raises ends the script run, the
\* documents written before it stay.
UiRecord ==
    /\ ui.pc = "thinking"
    /\ qPc = "done"
    /\ LET docs == ChatTurns(ui.variant, qLocals.query, qResult.value)
       IN  \E written \in 0..Len(docs) :
             IF ui.shared
             THEN /\ collection' = collection \o SubSeq(docs, 1, written)
                  /\ ui' = [ui EXCEPT !.pc = "idle"]
             ELSE /\ UNCHANGED collection
                  /\ ui' = [ui EXCEPT !.pc = "idle",
                                      !.chat = @ \o SubSeq(docs, 1, written)]
    /\ qPc' = "idle"
    /\ qLocals' = NoLocals
    /\ qCalls' = <<>>
    /\ qResult' = Pending
    /\ UNCHANGED <<qPath, tier, indexes, chunkerVars, storeVars, ingest>>

\* The Clear Chat History button of the flask page:
\* chat_collection.delete_many({}), which may raise before deleting.
UiClear ==
    \E fails \in BOOLEAN :
        /\ ui.variant = "flask"
        /\ ui.pc = "idle"
        /\ ui.turns < MaxTurns
        /\ ui' = [ui EXCEPT
                     !.turns = @ + 1,
                     !.notice = IF fails THEN "" ELSE "Chat history cleared!",
                     !.chat = IF fails \/ ui.shared THEN @ ELSE <<>>]
        /\ collection' = IF ~fails /\ ui.shared THEN <<>> ELSE collection
        /\ UNCHANGED <<tier, indexes, chunkerVars, storeVars, queryVars, ingest>>

\* C17: whatever questions are asked, chat turns recorded and chat
\* histories cleared, every step that changes the contents of the embedding
\* collection is an insert_documents or a delete_all_documents call of the
\* vector store.
C17_OnlyStoreMutatesCollection ==
    [][collection' # collection => (StoreInsert \/ StoreDeleteAll)]_vars

\* C17 for a page whose chat_collection is another collection than the
\* embedding collection.
C17_SeparateChatCollectionIsSafe ==
    [][(~ui.shared /\ collection' # collection)
          => (StoreInsert \/ StoreDeleteAll)]_vars

----------------------------------------------------------------------------
(* Specifications: one per component, the others at rest. *)

ChunkerAtRest ==
    /\ chText = <<>>
    /\ chSize = 1
    /\ chOverlap = 0
    /\ chOut = [status |-> "pending", chunks |-> <<>>]

BackendAtRest ==
    /\ tier = {"vector-ivf"}
    /\ indexes = {IdIndex}
    /\ collection = <<>>

\* Calls of the chunker on every text and every sizing within the bounds.
NextChunker == CallChunkText

InitChunkerSpec ==
    InitChunker /\ BackendAtRest /\ InitStore /\ QueryAtRest /\ IngestAtRest /\ UiAtRest

SpecChunker ==
    InitChunkerSpec
    /\ [][NextChunker]_vars

\* The vector store on a backend of any tier.
NextStore == StoreInit \/ StoreInsert \/ StoreDeleteAll

InitStoreSpec ==
    ChunkerAtRest /\ InitBackend /\ InitStore /\ QueryAtRest /\ IngestAtRest /\ UiAtRest

SpecStore ==
    InitStoreSpec
    /\ [][NextStore]_vars

\* Searches on a store constructed, once or again, over a collection that
\* is empty or holds one record, on a backend of any tier.
InitSearchBackend ==
    /\ tier \in {{"vector-ivf"} \cup s : s \in SUBSET {"vector-hnsw", "vector-diskann"}}
    /\ indexes = {IdIndex}
    /\ collection \in {<<>>} \cup {<<d>> : d \in DocUniverse}

NextSearch == StoreInit \/ StoreSearch

InitSearchSpec ==
    ChunkerAtRest /\ InitSearchBackend /\ InitStore /\ QueryAtRest /\ IngestAtRest
    /\ UiAtRest

SpecSearch ==
    InitSearchSpec
    /\ [][NextSearch]_vars

\* The collections a query may find: empty, or filled by either ingestion
\* path, or holding a record with the older field name text_chunk or with
\* two of the field names.
QueryCollections ==
    LET t1 == TextDoc(1, <<"a">>, UnitVec(EmbeddingDimensions, 1))
        t2 == TextDoc(2, <<"b">>, UnitVec(EmbeddingDimensions, 2))
        c1 == ContentDoc(<<"c">>, UnitVec(EmbeddingDimensions, 1), 1, 0)
        k1 == [text_chunk |-> <<"d">>,
               embedding |-> UnitVec(EmbeddingDimensions, 1)]
        b1 == [content |-> <<"e">>, text |-> <<"f">>,
               embedding |-> UnitVec(EmbeddingDimensions, 2)]
    IN  {<<>>, <<t1>>, <<t1, t2>>, <<t2, t1, t1>>, <<c1>>, <<t1, c1>>,
         <<k1>>, <<t1, b1>>}

InitQuery ==
    /\ tier = {"vector-ivf"}
    /\ indexes = {IdIndex, IndexSpec(IvfDefault(EmbeddingDimensions))}
    /\ collection \in QueryCollections

\* One query served by either get_response.
NextQuery == QueryStart \/ QueryEmbed \/ QuerySearch \/ QueryPrimary \/ QueryFallback

InitQuerySpec ==
    ChunkerAtRest /\ InitQuery /\ InitStore /\ QueryAtRest /\ IngestAtRest /\ UiAtRest

SpecQuery ==
    InitQuerySpec
    /\ [][NextQuery]_vars

\* The store is constructed; then one PDF is ingested by either path.
LiveStore ==
    /\ store = [live |-> TRUE, embedding_dimensions |-> EmbeddingDimensions,
                vector_index_type |-> "ivf"]
    /\ initLog = NoInit
    /\ insertLog = NoInsert
    /\ searchLog = NoSearch

\* The pages in use over a constructed store and a filled collection, with
\* the store's own inserts and deletions in between.
NextUi ==
    \/ UiAsk \/ QueryEmbed \/ QuerySearch \/ QueryPrimary \/ QueryFallback
    \/ UiRecord \/ UiClear \/ StoreInsert \/ StoreDeleteAll

\* The collection the pages find: empty, or holding one ingested record.
InitUiBackend ==
    /\ tier = {"vector-ivf"}
    /\ indexes = {IdIndex, IndexSpec(IvfDefault(EmbeddingDimensions))}
    /\ collection \in
          {<<>>, <<ContentDoc(<<"a">>, UnitVec(EmbeddingDimensions, 1), 1, 0)>>}

InitUiSpec ==
    InitUiBackend /\ ChunkerAtRest /\ LiveStore /\ QueryAtRest /\ IngestAtRest
    /\ InitUi

SpecUi ==
    InitUiSpec
    /\ [][NextUi]_vars

NextIngest == IngestStart \/ IngestEmbed \/ IngestInsert

InitIngestSpec ==
    ChunkerAtRest /\ InitQuery /\ LiveStore /\ QueryAtRest /\ IngestAtRest /\ UiAtRest

SpecIngest ==
    InitIngestSpec
    /\ [][NextIngest]_vars

====
